---- MODULE Spec2Model ----
(***************************************************************************)
(* State-machine model of the pharma-backend session workflows:            *)
(*   - the interview router            (src/server.js)                     *)
(*   - the GMP quiz router             (src/unnamed/part_000)              *)
(*   - the virtual lab simulator       (src/unnamed/part_001, 228-566)     *)
(*   - the process optimization router (src/unnamed/part_001, 1-227)       *)
(* Every request handler is an async function.  A handler that awaits the  *)
(* model call is split at the await: a ...Begin action runs the code up to *)
(* the await and parks the handler's locals in `pending`; a ...End action  *)
(* resumes it with the outcome of the model call.  Handlers without an     *)
(* await that yields to other requests are a single action.                *)
(* Session objects live in `heap`; the Maps hold references, as in JS, so  *)
(* a parked handler keeps its `session` object even if the Map entry is    *)
(* deleted or overwritten meanwhile.                                       *)
(* The routers share no state but the clock, so a behaviour                *)
(* exercises one of them, chosen by Init.  Prompts are not modelled: the   *)
(* model call may fail or return any of a few texts whatever the prompt,   *)
(* so the session fields that only feed prompts (jobRole, difficulty of an *)
(* interview, interviewType) are left out.                                 *)
(***************************************************************************)
EXTENDS Integers, Sequences, FiniteSets, Bags

VARIABLES
  router,            \* which express router this behaviour exercises
  now,               \* Date.now(), in milliseconds
  steps,             \* number of requests accepted and clock advances so far
  heap,              \* session objects, indexed by reference
  interviewSessions, \* src/server.js:23        Map sessionId -> reference
  quizSessions,      \* src/unnamed/part_000:7  Map sessionId -> reference
  labSessions,       \* src/unnamed/part_001:232 Map sessionId -> reference
  questionCache,     \* src/unnamed/part_000:6  NodeCache key -> entry
  optimizationCache, \* src/unnamed/part_001:7  NodeCache key -> entry
  pending,           \* the bag of handlers suspended at their await
  response,          \* the HTTP response sent by the last step, if any
  pregen,            \* the call of pregenerateQuestions that returned in the last step
  issued,            \* history: session ids returned by successful start calls
  completed          \* history: session ids for which a complete call succeeded

vars == <<router, now, steps, heap, interviewSessions, quizSessions,
          labSessions, questionCache, optimizationCache, pending, response,
          pregen, issued, completed>>

----------------------------------------------------------------------------
(* Bounds of the model *)

MaxSteps == 4
MaxPending == 2

(* Program constants *)

stdTTL == 3600

----------------------------------------------------------------------------
(* Strings.  A text is a sequence of tokens; the tokens that matter to the *)
(* code's regular expressions and to JSON.parse are kept apart.            *)
(*   "fence_json", "fence"  the code-fence markers with and without json  *)
(*   "[", "]", "{", "}" JSON brackets                                      *)
(*   "q"               the literal of one quiz question object             *)
(*   "s"               a JSON string literal                               *)
(*   "equipmentAnalysis"  the member "equipmentAnalysis": {...}            *)
(*   "optimizations", "optimizations2"  the member "optimizations" with    *)
(*                     one content and with another                        *)
(*   "summary"         the member "summary": {...}                         *)
(*   "note"            a member "note": "..." whose string value holds a   *)
(*                     closing brace followed by a fence marker            *)
(*   "unterminated"    the part of "note" up to and with that brace        *)
(*   "prose"           words that are not JSON                             *)

Atoms == {"q", "s"}
Members ==
  {"equipmentAnalysis", "optimizations", "optimizations2", "summary", "note"}

ParseError == [kind |-> "SyntaxError", items |-> <<>>, keys |-> {}]

AtomValue(tok) ==
  IF tok = "q"
  THEN [kind |-> "object", items |-> <<>>, keys |-> {"question"}]
  ELSE [kind |-> "string", items |-> <<>>, keys |-> {}]

Middle(t) == SubSeq(t, 2, Len(t) - 1)

SeqToSet(s) == {s[i] : i \in 1..Len(s)}

\* JSON.parse: a lone atom, a flat array of atoms, or an object of members.
JSONparse(t) ==
  IF Len(t) = 1 /\ t[1] \in Atoms THEN AtomValue(t[1])
  ELSE IF Len(t) >= 2 /\ t[1] = "[" /\ t[Len(t)] = "]"
          /\ SeqToSet(Middle(t)) \subseteq Atoms
  THEN [kind |-> "array",
        items |-> [i \in 1..(Len(t) - 2) |-> AtomValue(t[i + 1])],
        keys |-> {}]
  ELSE IF Len(t) >= 2 /\ t[1] = "{" /\ t[Len(t)] = "}"
          /\ SeqToSet(Middle(t)) \subseteq Members
  THEN [kind |-> "object", items |-> <<>>, keys |-> SeqToSet(Middle(t))]
  ELSE ParseError

IsFence(tok) == tok \in {"fence_json", "fence"}

NotFence(tok) == ~IsFence(tok)

\* text.replace(/(fence)json|(fence)/g, "").trim()
StripFences(t) == SelectSeq(t, NotFence)

\* Date.now().toString(): the decimal digits of n.
RECURSIVE toString(_)
toString(n) == IF n < 10 THEN <<n>> ELSE toString(n \div 10) \o <<n % 10>>

\* A session id no start call produces (toString never yields a leading zero).
UnknownId == <<0, 0>>

----------------------------------------------------------------------------
(* Map and heap helpers *)

MapSet(m, k, v) == [x \in DOMAIN m \cup {k} |-> IF x = k THEN v ELSE m[x]]

\* a delete that empties the Map
MapClear(m, k) == <<>>

MapDelete(m, k) == [x \in DOMAIN m \ {k} |-> m[x]]

MapGet(m, k) == IF k \in DOMAIN m THEN m[k] ELSE 0

Push(ref, field, v) == [heap EXCEPT ![ref][field] = Append(@, v)]

----------------------------------------------------------------------------
(* Requests *)

\* the locals of a handler suspended at its await; `before` is history: the
\* session object as the request found it
Handler(op, sessionId, session) ==
  [op |-> op, sessionId |-> sessionId, session |-> session,
   cacheKey |-> <<>>, count |-> 0, questions |-> <<>>,
   difficulty |-> <<>>, category |-> <<>>,
   before |-> IF session = 0 THEN <<>> ELSE heap[session]]

Suspended(op) == {h \in BagToSet(pending) : h.op = op}

CanSuspend == BagCardinality(pending) < MaxPending

Suspend(h) == pending' = pending (+) SetToBag({h})

Resume(h) == pending' = pending (-) SetToBag({h})

\* `text` is history: what the model call the handler awaited resolved to
NoResponse ==
  [op |-> "none", status |-> 0, sessionId |-> <<>>, data |-> 0, text |-> <<>>]

Reply(op, status, id, data) ==
  response' = [op |-> op, status |-> status, sessionId |-> id, data |-> data,
               text |-> <<>>]

\* the response of a handler whose model call resolved to `result`
ReplyAfter(result, op, status, id, data) ==
  response' = [op |-> op, status |-> status, sessionId |-> id, data |-> data,
               text |-> result]

NoPregen == [called |-> FALSE, cacheKey |-> <<>>, count |-> 0, result |-> <<>>]

Accept == /\ steps < MaxSteps
          /\ steps' = steps + 1

\* the session ids a client sends: those it was given, and one it was not
RequestIds == issued \cup {UnknownId}

\* the outcome of model.generateContent(prompt): it throws, or returns a text
GatewayError == <<"GatewayError">>

----------------------------------------------------------------------------
(* The clock *)

Tick ==
  /\ Accept
  /\ \E d \in {1, stdTTL * 1000 + 1} : now' = now + d
  /\ response' = NoResponse
  /\ pregen' = NoPregen
  /\ UNCHANGED <<router, heap, interviewSessions, quizSessions,
                 labSessions, questionCache, optimizationCache, pending, issued, completed>>

----------------------------------------------------------------------------
(* The interview router, src/server.js *)

NumQuestionsInputs == {1, 2}
Answers == {"answer"}

\* what the model may answer to the question prompt
QuestionTexts == {<<"prose">>}

\* what the model may answer to the feedback and summary prompts
FeedbackTexts == {<<"fence_json", "[", "s", "]", "fence">>, <<"prose">>}

NewInterviewSession(numQuestions) ==
  [numQuestions |-> numQuestions, questions |-> <<>>, answers |-> <<>>,
   feedbacks |-> <<>>]

\* the sessionId of a start call made at clock value t
NewSessionId(t) == toString(t)

\* POST /api/start-interview
StartInterview ==
  /\ router = "interview"
  /\ Accept
  /\ \E numQuestions \in NumQuestionsInputs :
       LET sessionId == NewSessionId(now)
           ref == Len(heap) + 1
       IN /\ heap' = Append(heap, NewInterviewSession(numQuestions))
          /\ interviewSessions' = MapSet(interviewSessions, sessionId, ref)
          /\ issued' = issued \cup {sessionId}
          /\ Reply("start-interview", 200, sessionId, 0)
  /\ pregen' = NoPregen
  /\ UNCHANGED <<router, now, quizSessions, labSessions, questionCache, optimizationCache,
                 pending, completed>>

\* a handler that answers an unknown session id with its generic error
NotFoundError(op, sessionId) ==
  /\ Reply(op, 500, sessionId, 0)
  /\ pregen' = NoPregen
  /\ UNCHANGED <<router, now, heap, interviewSessions, quizSessions,
                 labSessions, questionCache, optimizationCache, pending, issued,
                 completed>>

\* a handler that finds no session: 404, nothing else changes
NotFound(op, sessionId) ==
  /\ Reply(op, 404, sessionId, 0)
  /\ pregen' = NoPregen
  /\ UNCHANGED <<router, now, heap, interviewSessions, quizSessions,
                 labSessions, questionCache, optimizationCache, pending, issued, completed>>

\* POST /api/question, up to the await of model.generateContent
QuestionBegin ==
  /\ router = "interview"
  /\ Accept
  /\ \E sessionId \in RequestIds :
       LET session == MapGet(interviewSessions, sessionId)
       IN IF session = 0
          THEN NotFound("question", sessionId)
          ELSE /\ CanSuspend
               /\ Suspend(Handler("question", sessionId, session))
               /\ response' = NoResponse
               /\ pregen' = NoPregen
               /\ UNCHANGED <<router, now, heap, interviewSessions,
                              quizSessions, labSessions, questionCache, optimizationCache, issued,
                              completed>>

\* a catch block reached after the question slot was already pushed
QuestionFailedPushes(session) == Push(session, "questions", <<"undefined">>)

\* lines 85-88: the catch block of a failed question request leaves the
\* session as it is
QuestionFailed(session) == heap

\* the effect of a resolved question request on the session (line 82)
QuestionStore(session, question) == Push(session, "questions", question)

\* POST /api/question, from the await on
QuestionEnd ==
  /\ \E s \in Suspended("question") :
       /\ Resume(s)
       /\ \E result \in QuestionTexts \cup {GatewayError} :
            IF result = GatewayError
            THEN /\ Reply("question", 500, s.sessionId, 0)
                 /\ heap' = QuestionFailed(s.session)
            ELSE /\ heap' = QuestionStore(s.session, result)
                 /\ Reply("question", 200, s.sessionId, 0)
  /\ pregen' = NoPregen
  /\ UNCHANGED <<router, now, steps, interviewSessions, quizSessions,
                 labSessions, questionCache, optimizationCache, issued, completed>>

\* POST /api/feedback, up to the await: the answer is pushed before the call
FeedbackBegin ==
  /\ router = "interview"
  /\ Accept
  /\ \E sessionId \in RequestIds, answer \in Answers :
       LET session == MapGet(interviewSessions, sessionId)
       IN IF session = 0
          THEN NotFound("feedback", sessionId)
          ELSE /\ CanSuspend
               /\ heap' = Push(session, "answers", answer)
               /\ Suspend(Handler("feedback", sessionId, session))
               /\ response' = NoResponse
               /\ pregen' = NoPregen
               /\ UNCHANGED <<router, now, interviewSessions,
                              quizSessions, labSessions, questionCache, optimizationCache, issued,
                              completed>>

\* POST /api/feedback, from the await on
FeedbackEnd ==
  /\ \E s \in Suspended("feedback") :
       /\ Resume(s)
       /\ \E result \in FeedbackTexts \cup {GatewayError} :
            LET feedback == JSONparse(StripFences(result))
            IN IF result = GatewayError \/ feedback = ParseError
               THEN /\ Reply("feedback", 500, s.sessionId, 0)
                    /\ UNCHANGED heap
               ELSE /\ heap' = Push(s.session, "feedbacks", feedback)
                    /\ Reply("feedback", 200, s.sessionId, 0)
  /\ pregen' = NoPregen
  /\ UNCHANGED <<router, now, steps, interviewSessions, quizSessions,
                 labSessions, questionCache, optimizationCache, issued, completed>>

\* GET /api/interview-summary/:sessionId, up to the await
SummaryBegin ==
  /\ router = "interview"
  /\ Accept
  /\ \E sessionId \in RequestIds :
       LET session == MapGet(interviewSessions, sessionId)
       IN IF session = 0
          THEN NotFound("interview-summary", sessionId)
          ELSE /\ CanSuspend
               /\ Suspend(Handler("interview-summary", sessionId, session))
               /\ response' = NoResponse
               /\ pregen' = NoPregen
               /\ UNCHANGED <<router, now, heap, interviewSessions,
                              quizSessions, labSessions, questionCache, optimizationCache, issued,
                              completed>>

\* GET /api/interview-summary/:sessionId, from the await on: the handler
\* answers and returns; it never touches interviewSessions.
SummaryEnd ==
  /\ \E s \in Suspended("interview-summary") :
       /\ Resume(s)
       /\ \E result \in FeedbackTexts \cup {GatewayError} :
            LET summary == JSONparse(StripFences(result))
            IN IF result = GatewayError \/ summary = ParseError
               THEN /\ Reply("interview-summary", 500, s.sessionId, 0)
                    /\ UNCHANGED completed
               ELSE /\ Reply("interview-summary", 200, s.sessionId, 0)
                    /\ completed' = completed \cup {s.sessionId}
  /\ pregen' = NoPregen
  /\ UNCHANGED <<router, now, steps, heap, interviewSessions,
                 quizSessions, labSessions, questionCache, optimizationCache, issued>>

----------------------------------------------------------------------------
(* NodeCache({ stdTTL: 3600 }): an entry set at time t lives until         *)
(* t + stdTTL * 1000; a get past that time deletes it and misses.          *)

\* a cache whose entries never expire
ExpiredNever(cache, key, t) == FALSE

Expired(cache, key, t) == key \in DOMAIN cache /\ cache[key].t < t

\* cache.get(key) || []
CacheGet(cache, key, t) ==
  IF key \in DOMAIN cache /\ ~Expired(cache, key, t) THEN cache[key].v ELSE <<>>

\* the cache after cache.get(key)
CacheAfterGet(cache, key, t) ==
  IF Expired(cache, key, t) THEN MapDelete(cache, key) ELSE cache

\* cache.set(key, value)
CacheSet(cache, key, value, t) ==
  MapSet(cache, key, [v |-> value, t |-> t + stdTTL * 1000])

----------------------------------------------------------------------------
(* The GMP quiz router, src/unnamed/part_000 *)

Difficulties == {<<"easy">>}
Categories == {<<"hygiene">>}
CountInputs == {0, 1, 2}
QuestionIndexInputs == {0 - 1, 0, 1, 2}
UserAnswers == {"true", " TRUE ", "false"}

\* what the model may answer to the pre-generation prompt
QuizTexts == {<<"[", "q", "]">>,
              <<"fence_json", "[", "q", "q", "]", "fence">>,
              <<"[", "]">>,
              <<"[", "prose", "]">>,
              <<"prose">>}

\* what the model may answer to the completion prompt
MessageTexts == {<<"prose">>}

Min(a, b) == IF a <= b THEN a ELSE b

\* questions.slice(0, count)
Slice(questions, count) == SubSeq(questions, 1, Min(count, Len(questions)))

\* cacheKey, line 11
CacheKey(difficulty, category) == difficulty \o <<"-">> \o category

\* content.match(/\[.*\]/s): from the first "[" to the last "]"; <<>> is null
MatchArray(content) ==
  LET opens == {i \in 1..Len(content) : content[i] = "["}
      closes == {i \in 1..Len(content) : content[i] = "]"}
  IN IF opens = {} \/ closes = {} THEN <<>>
     ELSE LET first == CHOOSE i \in opens : \A j \in opens : i <= j
              last == CHOOSE i \in closes : \A j \in closes : i >= j
          IN IF first < last THEN SubSeq(content, first, last) ELSE <<>>

\* lines 31-52: the new questions parsed from the model's answer, or the error
\* thrown on the way
NewQuestions(result) ==
  IF result = GatewayError THEN ParseError
  ELSE IF MatchArray(result) = <<>> THEN ParseError
  ELSE LET newQuestions == JSONparse(MatchArray(result))
       IN IF newQuestions.kind # "array" THEN ParseError ELSE newQuestions

\* line 59: what pregenerateQuestions returns when its try block throws
PregenerateFailed(questions, count) == <<>>

\* a session that plans for the number of questions the request asked for
NewQuizSessionRequested(questions, difficulty, category, count) ==
  [questions |-> questions, currentQuestionIndex |-> 0,
   numberOfQuestions |-> count, difficulty |-> difficulty,
   category |-> category, requested |-> count, calls |-> 0]

\* lines 79-85; `requested` and `calls` are history: the numberOfQuestions of
\* the request body, and the generate-question requests the session has handled
NewQuizSession(questions, difficulty, category, count) ==
  [questions |-> questions, currentQuestionIndex |-> 0,
   numberOfQuestions |-> Len(questions), difficulty |-> difficulty,
   category |-> category, requested |-> count, calls |-> 0]

\* a start-quiz that stores the session without looking at questions.length
StartQuizFinishUnchecked(sessionId, questions, difficulty, category, count) ==
  /\ heap' = Append(heap, NewQuizSession(questions, difficulty, category, count))
  /\ quizSessions' = MapSet(quizSessions, sessionId, Len(heap) + 1)
  /\ issued' = issued \cup {sessionId}
  /\ Reply("start-quiz", 200, sessionId, 0)

\* POST /start-quiz, lines 75-87, once pregenerateQuestions has returned
StartQuizFinish(sessionId, questions, difficulty, category, count) ==
  IF Len(questions) = 0
  THEN /\ Reply("start-quiz", 500, sessionId, 0)
       /\ UNCHANGED <<heap, quizSessions, issued>>
  ELSE LET ref == Len(heap) + 1
       IN /\ heap' = Append(heap, NewQuizSession(questions, difficulty, category,
                                                      count))
          /\ quizSessions' = MapSet(quizSessions, sessionId, ref)
          /\ issued' = issued \cup {sessionId}
          /\ Reply("start-quiz", 200, sessionId, 0)

\* POST /start-quiz up to the await of model.generateContent inside
\* pregenerateQuestions, or to its end when the cached pool is large enough
StartQuizBegin ==
  /\ router = "quiz"
  /\ Accept
  /\ \E count \in CountInputs, difficulty \in Difficulties, category \in Categories :
       LET sessionId == NewSessionId(now)
           cacheKey == CacheKey(difficulty, category)
           questions == CacheGet(questionCache, cacheKey, now)
       IN /\ questionCache' = CacheAfterGet(questionCache, cacheKey, now)
          /\ IF Len(questions) < count
             THEN /\ CanSuspend
                  /\ Suspend([op |-> "start-quiz", sessionId |-> sessionId,
                               session |-> 0, cacheKey |-> cacheKey,
                               count |-> count, questions |-> questions,
                               difficulty |-> difficulty, category |-> category,
                               before |-> <<>>])
                  /\ response' = NoResponse
                  /\ pregen' = NoPregen
                  /\ UNCHANGED <<heap, quizSessions, issued>>
             ELSE /\ pregen' = [called |-> TRUE, cacheKey |-> cacheKey,
                                count |-> count, result |-> Slice(questions, count)]
                  /\ StartQuizFinish(sessionId, Slice(questions, count),
                                     difficulty, category, count)
                  /\ UNCHANGED pending
  /\ UNCHANGED <<router, now, interviewSessions, labSessions,
                 optimizationCache, completed>>

\* POST /start-quiz from the await inside pregenerateQuestions on
StartQuizEnd ==
  /\ \E s \in Suspended("start-quiz") :
       /\ Resume(s)
       /\ \E result \in QuizTexts \cup {GatewayError} :
            LET p == s
                newQuestions == NewQuestions(result)
                questions == p.questions \o newQuestions.items
                returned == IF newQuestions = ParseError
                            THEN PregenerateFailed(p.questions, p.count)
                            ELSE Slice(questions, p.count)
            IN /\ questionCache' =
                    IF newQuestions = ParseError THEN questionCache
                    ELSE CacheSet(questionCache, p.cacheKey, questions, now)
               /\ pregen' = [called |-> TRUE, cacheKey |-> p.cacheKey,
                             count |-> p.count, result |-> returned]
               /\ StartQuizFinish(p.sessionId, returned, p.difficulty, p.category,
                                  p.count)
  /\ UNCHANGED <<router, now, steps, interviewSessions, labSessions,
                 optimizationCache, completed>>

\* the body {quizCompleted: true} carries no questionIndex
QuizCompleted == 0 - 1

\* a handler that serves the question and leaves the cursor where it was
AdvanceQuestionNot(session) == heap

\* history: one more generate-question request handled by the session
Called(session, h) == [h EXCEPT ![session].calls = @ + 1]

\* a handler that moves the cursor of every session object
AdvanceQuestionEverywhere(session) ==
  [r \in DOMAIN heap |-> [heap[r] EXCEPT !.currentQuestionIndex = @ + 1]]

\* a handler that moves the cursor past the question it serves and the next
AdvanceQuestionTwice(session) ==
  [heap EXCEPT ![session].currentQuestionIndex = @ + 2]

\* session.currentQuestionIndex++ (line 109)
AdvanceQuestion(session) ==
  [heap EXCEPT ![session].currentQuestionIndex = @ + 1]

\* POST /generate-question: no await, one step
GenerateQuestion ==
  /\ router = "quiz"
  /\ Accept
  /\ \E sessionId \in RequestIds :
       LET session == MapGet(quizSessions, sessionId)
       IN IF session = 0
          THEN NotFound("generate-question", sessionId)
          ELSE /\ IF heap[session].currentQuestionIndex >= heap[session].numberOfQuestions
                  THEN /\ Reply("generate-question", 200, sessionId,
                                QuizCompleted)
                       /\ heap' = Called(session, heap)
                  ELSE /\ heap' = Called(session, AdvanceQuestion(session))
                       /\ Reply("generate-question", 200, sessionId,
                                heap'[session].currentQuestionIndex - 1)
               /\ pregen' = NoPregen
               /\ UNCHANGED <<router, now, interviewSessions, quizSessions,
                              labSessions, questionCache, optimizationCache, pending, issued, completed>>

\* the fields of the question object literal "q"
QuestionType(question) == "trueFalse"
CorrectAnswer(question) == "true"

\* answer.toLowerCase().trim() (line 135)
normalizeAnswer(answer) == IF answer = " TRUE " THEN "true" ELSE answer

\* POST /check-answer: no await, one step; it changes no state
CheckAnswer ==
  /\ router = "quiz"
  /\ Accept
  /\ \E sessionId \in RequestIds, questionIndex \in QuestionIndexInputs,
        userAnswer \in UserAnswers :
       LET session == MapGet(quizSessions, sessionId)
       IN IF session = 0
          THEN NotFound("check-answer", sessionId)
          ELSE /\ IF questionIndex < 0 \/ questionIndex >= Len(heap[session].questions)
                  THEN Reply("check-answer", 400, sessionId, 0)
                  ELSE LET question == heap[session].questions[questionIndex + 1]
                       IN IF QuestionType(question) \in {"multipleChoice", "trueFalse"}
                          THEN Reply("check-answer", 200, sessionId,
                                     IF normalizeAnswer(userAnswer)
                                          = normalizeAnswer(CorrectAnswer(question))
                                     THEN 1 ELSE 0)
                          ELSE Reply("check-answer", 400, sessionId, 0)
               /\ pregen' = NoPregen
               /\ UNCHANGED <<router, now, heap, interviewSessions,
                              quizSessions, labSessions, questionCache, optimizationCache, pending,
                              issued, completed>>

\* POST /complete-quiz up to the await of model.generateContent
CompleteQuizBegin ==
  /\ router = "quiz"
  /\ Accept
  /\ \E sessionId \in RequestIds :
       LET session == MapGet(quizSessions, sessionId)
       IN IF session = 0
          THEN NotFound("complete-quiz", sessionId)
          ELSE /\ CanSuspend
               /\ Suspend(Handler("complete-quiz", sessionId, session))
               /\ response' = NoResponse
               /\ pregen' = NoPregen
               /\ UNCHANGED <<router, now, heap, interviewSessions,
                              quizSessions, labSessions, questionCache, optimizationCache, issued,
                              completed>>

\* POST /complete-quiz from the await on: quizSessions.delete(sessionId)
CompleteQuizEnd ==
  /\ \E s \in Suspended("complete-quiz") :
       /\ Resume(s)
       /\ \E result \in MessageTexts \cup {GatewayError} :
            IF result = GatewayError
            THEN /\ Reply("complete-quiz", 500, s.sessionId, 0)
                 /\ UNCHANGED <<quizSessions, completed>>
            ELSE /\ quizSessions' = MapDelete(quizSessions, s.sessionId)
                 /\ completed' = completed \cup {s.sessionId}
                 /\ Reply("complete-quiz", 200, s.sessionId, 0)
  /\ pregen' = NoPregen
  /\ UNCHANGED <<router, now, steps, heap, interviewSessions,
                 labSessions, questionCache, optimizationCache, issued>>

----------------------------------------------------------------------------
(* The virtual lab simulator router, src/unnamed/part_001 lines 228-566 *)

ExperimentNames == {"dissolution"}
LabActions == {"weigh"}

\* what the model may answer to a lab prompt
LabTexts == {<<"fence_json", "{", "equipmentAnalysis", "}", "fence">>,
             <<"{", "}">>,
             <<"prose">>}

Undefined == [kind |-> "undefined", items |-> <<>>, keys |-> {}]

\* callGoogleAI: the parsed answer; ParseError stands for the Error it throws
callGoogleAI(result) ==
  IF result = GatewayError THEN ParseError ELSE JSONparse(StripFences(result))

\* lines 300-306; `failed` and `selected` are history: some request on the
\* session answered 500, some select-equipment request on it answered 200
NewLabSession(experimentName, structuredIntroduction) ==
  [experimentName |-> experimentName, currentStep |-> 0, actions |-> <<>>,
   equipmentSelected |-> FALSE, experimentData |-> structuredIntroduction,
   equipmentAnalysis |-> Undefined, failed |-> FALSE, selected |-> FALSE]

\* a lab handler answers without touching the Maps or the heap
LabReply(op, status, sessionId, data) ==
  /\ Reply(op, status, sessionId, data)
  /\ UNCHANGED heap

\* history: a request on the session answered 500
Failed(session, h) == [h EXCEPT ![session].failed = TRUE]

\* the catch block of a lab handler: 500, the session object stays as it is
LabError(op, sessionId, session) ==
  /\ Reply(op, 500, sessionId, 0)
  /\ heap' = Failed(session, heap)

\* POST /start-experiment up to the await of callGoogleAI
StartExperimentBegin ==
  /\ router = "lab"
  /\ Accept
  /\ CanSuspend
  /\ \E experimentName \in ExperimentNames :
       Suspend(Handler("start-experiment", NewSessionId(now), 0))
  /\ response' = NoResponse
  /\ pregen' = NoPregen
  /\ UNCHANGED <<router, now, heap, interviewSessions, quizSessions,
                 labSessions, questionCache, optimizationCache, issued, completed>>

\* POST /start-experiment from the await on
StartExperimentEnd ==
  /\ \E s \in Suspended("start-experiment") :
       /\ Resume(s)
       /\ \E result \in LabTexts \cup {GatewayError}, experimentName \in ExperimentNames :
            LET structuredIntroduction == callGoogleAI(result)
                sessionId == s.sessionId
                ref == Len(heap) + 1
            IN IF structuredIntroduction = ParseError
               THEN /\ LabReply("start-experiment", 500, sessionId, 0)
                    /\ UNCHANGED <<labSessions, issued>>
               ELSE /\ heap' = Append(heap, NewLabSession(experimentName,
                                                          structuredIntroduction))
                    /\ labSessions' = MapSet(labSessions, sessionId, ref)
                    /\ issued' = issued \cup {sessionId}
                    /\ Reply("start-experiment", 200, sessionId, 0)
  /\ pregen' = NoPregen
  /\ UNCHANGED <<router, now, steps, interviewSessions, quizSessions,
                 questionCache, optimizationCache, completed>>

\* lines 329-330: the session is marked and the selection logged before the call;
\* selectedEquipment.join throws when the body carries no array
SelectEquipmentMark(session, hasEquipment) ==
  IF hasEquipment
  THEN [heap EXCEPT ![session].equipmentSelected = TRUE,
                    ![session].actions = Append(@, <<"Selected equipment">>)]
  ELSE [heap EXCEPT ![session].equipmentSelected = TRUE]

\* POST /select-equipment up to the await of callGoogleAI
SelectEquipmentBegin ==
  /\ router = "lab"
  /\ Accept
  /\ \E sessionId \in RequestIds, hasEquipment \in BOOLEAN :
       LET session == MapGet(labSessions, sessionId)
       IN IF session = 0
          THEN NotFound("select-equipment", sessionId)
          ELSE /\ heap' = IF hasEquipment
                          THEN SelectEquipmentMark(session, hasEquipment)
                          ELSE Failed(session,
                                      SelectEquipmentMark(session, hasEquipment))
               /\ IF hasEquipment
                  THEN /\ CanSuspend
                       /\ Suspend(Handler("select-equipment", sessionId, session))
                       /\ response' = NoResponse
                  ELSE /\ Reply("select-equipment", 500, sessionId, 0)
                       /\ UNCHANGED pending
               /\ pregen' = NoPregen
               /\ UNCHANGED <<router, now, interviewSessions, quizSessions,
                              labSessions, questionCache, optimizationCache, issued, completed>>

\* POST /select-equipment from the await on: line 396 stores the analysis, and
\* line 402 throws when it has no equipmentAnalysis member
SelectEquipmentEnd ==
  /\ \E s \in Suspended("select-equipment") :
       /\ Resume(s)
       /\ \E result \in LabTexts \cup {GatewayError} :
            LET analysis == callGoogleAI(result)
                session == s.session
            IN IF analysis = ParseError
               THEN LabError("select-equipment", s.sessionId, session)
               ELSE LET stored == [heap EXCEPT ![session].equipmentAnalysis = analysis]
                    IN IF "equipmentAnalysis" \in analysis.keys
                       THEN /\ heap' = [stored EXCEPT ![session].selected = TRUE]
                            /\ Reply("select-equipment", 200, s.sessionId, 0)
                       ELSE /\ heap' = Failed(session, stored)
                            /\ Reply("select-equipment", 500, s.sessionId, 0)
  /\ pregen' = NoPregen
  /\ UNCHANGED <<router, now, steps, interviewSessions, quizSessions,
                 labSessions, questionCache, optimizationCache, issued, completed>>

\* a handler that counts the step before the call and again after it
NextStepAdvanceTwice(session) == [heap EXCEPT ![session].currentStep = @ + 2]

\* session.currentStep++ (line 473), before the call
NextStepAdvance(session) == [heap EXCEPT ![session].currentStep = @ + 1]

\* POST /next-step up to the await of callGoogleAI
NextStepBegin ==
  /\ router = "lab"
  /\ Accept
  /\ \E sessionId \in RequestIds :
       LET session == MapGet(labSessions, sessionId)
       IN IF session = 0
          THEN NotFound("next-step", sessionId)
          ELSE /\ IF ~heap[session].equipmentSelected
                  THEN /\ LabReply("next-step", 400, sessionId, 0)
                       /\ UNCHANGED pending
                  ELSE /\ CanSuspend
                       /\ heap' = NextStepAdvance(session)
                       /\ Suspend(Handler("next-step", sessionId, session))
                       /\ response' = NoResponse
               /\ pregen' = NoPregen
               /\ UNCHANGED <<router, now, interviewSessions, quizSessions,
                              labSessions, questionCache, optimizationCache, issued, completed>>

\* POST /next-step from the await on: the step logged and returned is the
\* session's currentStep at that time
NextStepEnd ==
  /\ \E s \in Suspended("next-step") :
       /\ Resume(s)
       /\ \E result \in LabTexts \cup {GatewayError} :
            LET instructions == callGoogleAI(result)
                session == s.session
            IN IF instructions = ParseError
               THEN /\ heap' = Failed(session, heap)
                    /\ ReplyAfter(result, "next-step", 500, s.sessionId, 0)
               ELSE /\ heap' = Push(session, "actions",
                                    <<"Completed step", heap[session].currentStep>>)
                    /\ ReplyAfter(result, "next-step", 200, s.sessionId,
                                  heap[session].currentStep)
  /\ pregen' = NoPregen
  /\ UNCHANGED <<router, now, steps, interviewSessions, quizSessions,
                 labSessions, questionCache, optimizationCache, issued, completed>>

\* POST /perform-action up to the await: the action is logged before the call
PerformActionBegin ==
  /\ router = "lab"
  /\ Accept
  /\ \E sessionId \in RequestIds, action \in LabActions :
       LET session == MapGet(labSessions, sessionId)
       IN IF session = 0
          THEN NotFound("perform-action", sessionId)
          ELSE /\ CanSuspend
               /\ heap' = Push(session, "actions", <<action>>)
               /\ Suspend(Handler("perform-action", sessionId, session))
               /\ response' = NoResponse
               /\ pregen' = NoPregen
               /\ UNCHANGED <<router, now, interviewSessions, quizSessions,
                              labSessions, questionCache, optimizationCache, issued, completed>>

\* POST /perform-action and POST /ask-question from the await on
AnswerEnd ==
  /\ \E s \in Suspended("perform-action") \cup Suspended("ask-question") :
       /\ Resume(s)
       /\ \E result \in LabTexts \cup {GatewayError} :
            LET answer == callGoogleAI(result)
            IN IF answer = ParseError
               THEN /\ heap' = Failed(s.session, heap)
                    /\ ReplyAfter(result, s.op, 500, s.sessionId, 0)
               ELSE /\ ReplyAfter(result, s.op, 200, s.sessionId, 0)
                    /\ UNCHANGED heap
  /\ pregen' = NoPregen
  /\ UNCHANGED <<router, now, steps, interviewSessions, quizSessions,
                 labSessions, questionCache, optimizationCache, issued, completed>>

\* POST /ask-question up to the await
AskQuestionBegin ==
  /\ router = "lab"
  /\ Accept
  /\ \E sessionId \in RequestIds :
       LET session == MapGet(labSessions, sessionId)
       IN IF session = 0
          THEN NotFound("ask-question", sessionId)
          ELSE /\ CanSuspend
               /\ Suspend(Handler("ask-question", sessionId, session))
               /\ response' = NoResponse
               /\ pregen' = NoPregen
               /\ UNCHANGED <<router, now, heap, interviewSessions,
                              quizSessions, labSessions, questionCache, optimizationCache, issued,
                              completed>>

\* POST /complete-experiment up to the await
CompleteExperimentBegin ==
  /\ router = "lab"
  /\ Accept
  /\ \E sessionId \in RequestIds :
       LET session == MapGet(labSessions, sessionId)
       IN IF session = 0
          THEN NotFound("complete-experiment", sessionId)
          ELSE /\ CanSuspend
               /\ Suspend(Handler("complete-experiment", sessionId, session))
               /\ response' = NoResponse
               /\ pregen' = NoPregen
               /\ UNCHANGED <<router, now, heap, interviewSessions,
                              quizSessions, labSessions, questionCache, optimizationCache, issued,
                              completed>>

\* POST /complete-experiment from the await on: labSessions.delete(sessionId)
CompleteExperimentEnd ==
  /\ \E s \in Suspended("complete-experiment") :
       /\ Resume(s)
       /\ \E result \in LabTexts \cup {GatewayError} :
            LET summary == callGoogleAI(result)
            IN IF summary = ParseError
               THEN /\ LabError("complete-experiment", s.sessionId, s.session)
                    /\ UNCHANGED <<labSessions, completed>>
               ELSE /\ labSessions' = MapDelete(labSessions, s.sessionId)
                    /\ completed' = completed \cup {s.sessionId}
                    /\ Reply("complete-experiment", 200, s.sessionId, 0)
                    /\ UNCHANGED heap
  /\ pregen' = NoPregen
  /\ UNCHANGED <<router, now, steps, interviewSessions,
                 quizSessions, questionCache, optimizationCache, issued>>

----------------------------------------------------------------------------
(* The process optimization router, src/unnamed/part_001 lines 1-227 *)

\* a JSON number and a JSON string as parameter values
Number(n) == [type |-> "number", n |-> n]
String == [type |-> "string", n |-> 0]

\* one entry of processSteps: its name and its parameters, an object given as
\* the sequence of its <<name, value>> entries, or something that is no object
Step(step, parameters) == [step |-> step, object |-> TRUE, parameters |-> parameters]
NoObject(step) == [step |-> step, object |-> FALSE, parameters |-> <<>>]

\* req.body.processSteps
ProcessStepsInputs ==
  {<<>>,
   <<Step("Mixing", << <<"Temperature", Number(150)>> >>)>>,
   <<Step("Mixing", << <<"pH", Number(200)>> >>)>>,
   <<Step("Mixing", << <<"Temperature", Number(151)>> >>)>>,
   <<Step("Mixing", << <<"Temperature", Number(0 - 1)>> >>)>>,
   <<Step("Mixing", << <<"Temperature", String>> >>)>>,
   <<Step("Mixing", << <<"pH", Number(7)>>, <<"Pressure", Number(11)>> >>)>>,
   <<NoObject("Mixing")>>}

\* parameterLimits[param], lines 43-49; the keys are written without units
parameterLimits(param) ==
  CASE param = "Temperature" -> [limited |-> TRUE, min |-> 0, max |-> 150]
    [] param = "Pressure" -> [limited |-> TRUE, min |-> 0, max |-> 10]
    [] param = "Time" -> [limited |-> TRUE, min |-> 0, max |-> 24]
    [] param = "Speed" -> [limited |-> TRUE, min |-> 0, max |-> 5000]
    [] param = "Flow Rate" -> [limited |-> TRUE, min |-> 0, max |-> 100]
    [] OTHER -> [limited |-> FALSE, min |-> 0, max |-> 0]

\* a range check that accepts every value
OutOfRangeNever(param, value) == FALSE

\* line 69: limits && (value < limits.min || value > limits.max)
OutOfRange(param, value) ==
  LET limits == parameterLimits(param)
  IN limits.limited /\ (value.n < limits.min \/ value.n > limits.max)

\* line 62: typeof value !== 'number' || isNaN(value)
NotNumber(value) == value.type # "number"

\* the middleware validateProcessSteps: 400 when it answers, 0 when it calls next()
validateProcessSteps(processSteps) ==
  IF Len(processSteps) = 0 THEN 400
  ELSE IF \E i \in 1..Len(processSteps) :
            \/ ~processSteps[i].object
            \/ \E j \in 1..Len(processSteps[i].parameters) :
                 LET param == processSteps[i].parameters[j][1]
                     value == processSteps[i].parameters[j][2]
                 IN NotNumber(value) \/ OutOfRange(param, value)
  THEN 400
  ELSE 0

Digits == <<"0", "1", "2", "3", "4", "5", "6", "7", "8", "9">>

\* JSON.stringify of a parameter value
StringifyValue(value) ==
  IF value.type = "number"
  THEN (IF value.n < 0 THEN <<"-">> ELSE <<>>)
         \o [i \in 1..Len(toString(IF value.n < 0 THEN 0 - value.n ELSE value.n)) |->
               Digits[toString(IF value.n < 0 THEN 0 - value.n ELSE value.n)[i] + 1]]
  ELSE <<"s">>

RECURSIVE StringifyParameters(_)
StringifyParameters(parameters) ==
  IF parameters = <<>> THEN <<>>
  ELSE <<parameters[1][1], ":">> \o StringifyValue(parameters[1][2])
         \o (IF Len(parameters) > 1 THEN <<",">> ELSE <<>>)
         \o StringifyParameters(Tail(parameters))

RECURSIVE StringifySteps(_)
StringifySteps(processSteps) ==
  IF processSteps = <<>> THEN <<>>
  ELSE <<processSteps[1].step, ":">>
         \o (IF processSteps[1].object
             THEN <<"{">> \o StringifyParameters(processSteps[1].parameters) \o <<"}">>
             ELSE <<"null">>)
         \o (IF Len(processSteps) > 1 THEN <<",">> ELSE <<>>)
         \o StringifySteps(Tail(processSteps))

\* cacheKey = JSON.stringify(processSteps), line 129
JSONstringify(processSteps) == <<"{">> \o StringifySteps(processSteps) \o <<"}">>

\* what the model may answer to the optimization prompt
OptimizationTexts ==
  {<<"{", "optimizations", "summary", "}">>,
   <<"{", "optimizations2", "summary", "}">>,
   <<"fence_json", "{", "optimizations", "summary", "}", "fence">>,
   <<"prose", "{", "optimizations2", "summary", "}", "prose">>,
   <<"{", "optimizations", "}">>,
   <<"fence", "{", "prose", "}", "fence", "{", "summary", "}">>,
   <<"fence", "{", "optimizations", "summary", "note", "}">>,
   <<"prose", "[", "q", "]">>,
   <<"s">>,
   <<"prose">>}

\* the key of a member token
MemberKey(tok) == IF tok = "optimizations2" THEN "optimizations" ELSE tok

\* value[k] is there and truthy
HasKey(value, k) == \E m \in value.keys : MemberKey(m) = k

\* a closing brace at position m, or inside the token there
ClosingBrace(content, m) == content[m] \in {"}", "note"}

\* a closing brace at position m with a fence marker right after it
BraceThenFence(content, m) ==
  \/ content[m] = "note"
  \/ content[m] = "}" /\ m < Len(content) /\ IsFence(content[m + 1])

\* the text from position first to the closing brace at position last
UpToBrace(content, first, last) ==
  IF content[last] = "note"
  THEN SubSeq(content, first, last - 1) \o <<"unterminated">>
  ELSE SubSeq(content, first, last)

\* content.match of the fenced-object pattern, line 16: group 1 of the leftmost
\* match, its object as long as the pattern allows; <<>> is null
FencedObject(content) ==
  LET closes(i) == {m \in (i + 2)..Len(content) : BraceThenFence(content, m)}
      opens == {i \in 1..(Len(content) - 1) :
                  IsFence(content[i]) /\ content[i + 1] = "{" /\ closes(i) # {}}
  IN IF opens = {} THEN <<>>
     ELSE LET first == CHOOSE i \in opens : \A j \in opens : i <= j
              last == CHOOSE m \in closes(first) : \A n \in closes(first) : m >= n
          IN UpToBrace(content, first + 1, last)

\* content.match of the any-object pattern, line 22: from the first "{" to the
\* last "}"; <<>> is null
ObjectMatch(content) ==
  LET opens == {i \in 1..Len(content) : content[i] = "{"}
      closes == {i \in 1..Len(content) : ClosingBrace(content, i)}
  IN IF opens = {} \/ closes = {} THEN <<>>
     ELSE LET first == CHOOSE i \in opens : \A j \in opens : i <= j
              last == CHOOSE i \in closes : \A j \in closes : i >= j
          IN IF first < last THEN UpToBrace(content, first, last) ELSE <<>>

\* extractJSONFromResponse, lines 10-29; ParseError stands for what it throws
extractJSONFromResponse(content) ==
  IF JSONparse(content) # ParseError THEN JSONparse(content)
  ELSE IF FencedObject(content) # <<>> THEN JSONparse(FencedObject(content))
  ELSE IF ObjectMatch(content) # <<>> THEN JSONparse(ObjectMatch(content))
  ELSE ParseError

\* a handler that stores whatever extractJSONFromResponse returned
OptimizationResponseUnchecked(result) ==
  IF result = GatewayError THEN ParseError ELSE extractJSONFromResponse(result)

\* lines 148-156: the parsed answer, or ParseError for what the try block throws
OptimizationResponse(result) ==
  IF result = GatewayError THEN ParseError
  ELSE LET optimizationResponse == extractJSONFromResponse(result)
       IN IF optimizationResponse = ParseError THEN ParseError
          ELSE IF ~HasKey(optimizationResponse, "optimizations")
                  \/ ~HasKey(optimizationResponse, "summary")
          THEN ParseError
          ELSE optimizationResponse

\* lines 166-174: the members of the parsed answer, and the metadata
WithMetadata(optimizationResponse, cacheKey, t) ==
  [members |-> optimizationResponse.keys,
   metadata |-> [timestamp |-> t, processStepsHash |-> cacheKey]]

\* if (cachedResult): the key has an entry that has not expired
CacheHas(cache, key, t) == key \in DOMAIN cache /\ ~Expired(cache, key, t)

\* the ids a client asks results for: the keys of the requests that pass the
\* validation, and one that was never stored
UnknownKey == <<"unknown">>

ResultIds ==
  {JSONstringify(processSteps) :
     processSteps \in {p \in ProcessStepsInputs : validateProcessSteps(p) = 0}}
    \cup {UnknownKey}

\* POST /optimize with its middleware, up to the await of model.generateContent
OptimizeBegin ==
  /\ router = "optimization"
  /\ Accept
  /\ \E processSteps \in ProcessStepsInputs :
       LET cacheKey == JSONstringify(processSteps)
       IN IF validateProcessSteps(processSteps) = 400
          THEN /\ Reply("optimize", 400, cacheKey, 0)
               /\ UNCHANGED <<optimizationCache, pending>>
          ELSE /\ optimizationCache' = CacheAfterGet(optimizationCache, cacheKey, now)
               /\ IF CacheHas(optimizationCache, cacheKey, now)
                  THEN /\ Reply("optimize", 200, cacheKey,
                                [body |-> optimizationCache[cacheKey].v,
                                 fromCache |-> TRUE])
                       /\ UNCHANGED pending
                  ELSE /\ CanSuspend
                       /\ Suspend([Handler("optimize", cacheKey, 0)
                                     EXCEPT !.cacheKey = cacheKey])
                       /\ response' = NoResponse
  /\ pregen' = NoPregen
  /\ UNCHANGED <<router, now, heap, interviewSessions, quizSessions,
                 labSessions, questionCache, issued, completed>>

\* POST /optimize from the await on
OptimizeEnd ==
  /\ \E s \in Suspended("optimize") :
       /\ Resume(s)
       /\ \E result \in OptimizationTexts \cup {GatewayError} :
            LET optimizationResponse == OptimizationResponse(result)
                stored == WithMetadata(optimizationResponse, s.cacheKey, now)
            IN IF optimizationResponse = ParseError
               THEN /\ ReplyAfter(result, "optimize", 500, s.cacheKey, 0)
                    /\ UNCHANGED optimizationCache
               ELSE /\ optimizationCache' =
                         CacheSet(optimizationCache, s.cacheKey, stored, now)
                    /\ ReplyAfter(result, "optimize", 200, s.cacheKey,
                                  [body |-> stored, fromCache |-> FALSE])
  /\ pregen' = NoPregen
  /\ UNCHANGED <<router, now, steps, heap, interviewSessions, quizSessions,
                 labSessions, questionCache, issued, completed>>

\* GET /result/:id; the data of a 404 is history: whether an expired entry
\* was found
Result ==
  /\ router = "optimization"
  /\ Accept
  /\ \E id \in ResultIds :
       /\ optimizationCache' = CacheAfterGet(optimizationCache, id, now)
       /\ IF CacheHas(optimizationCache, id, now)
          THEN Reply("result", 200, id,
                     [body |-> optimizationCache[id].v, fromCache |-> FALSE])
          ELSE Reply("result", 404, id,
                     IF id \in DOMAIN optimizationCache THEN 1 ELSE 0)
  /\ pregen' = NoPregen
  /\ UNCHANGED <<router, now, heap, interviewSessions, quizSessions,
                 labSessions, questionCache, pending, issued, completed>>

\* DELETE /result/:id: optimizationCache.del counts the keys it removed
DeleteResult ==
  /\ router = "optimization"
  /\ Accept
  /\ \E id \in ResultIds :
       IF id \in DOMAIN optimizationCache
       THEN /\ optimizationCache' = MapDelete(optimizationCache, id)
            /\ Reply("delete-result", 200, id, 0)
       ELSE /\ Reply("delete-result", 404, id, 0)
            /\ UNCHANGED optimizationCache
  /\ pregen' = NoPregen
  /\ UNCHANGED <<router, now, heap, interviewSessions, quizSessions,
                 labSessions, questionCache, pending, issued, completed>>

\* GET /history: optimizationCache.get on every key drops the expired entries
History ==
  /\ router = "optimization"
  /\ Accept
  /\ optimizationCache' =
       [key \in {k \in DOMAIN optimizationCache :
                   ~Expired(optimizationCache, k, now)} |-> optimizationCache[key]]
  /\ Reply("history", 200, <<>>, 0)
  /\ pregen' = NoPregen
  /\ UNCHANGED <<router, now, heap, interviewSessions, quizSessions,
                 labSessions, questionCache, pending, issued, completed>>

----------------------------------------------------------------------------
(* The specification *)

Routers == {"interview", "quiz", "lab", "optimization"}

Init ==
  /\ router \in Routers
  /\ now = 0
  /\ steps = 0
  /\ heap = <<>>
  /\ interviewSessions = <<>>
  /\ quizSessions = <<>>
  /\ labSessions = <<>>
  /\ questionCache = <<>>
  /\ optimizationCache = <<>>
  /\ pending = EmptyBag
  /\ response = NoResponse
  /\ pregen = NoPregen
  /\ issued = {}
  /\ completed = {}

Next ==
  \/ Tick
  \/ StartInterview
  \/ QuestionBegin
  \/ QuestionEnd
  \/ FeedbackBegin
  \/ FeedbackEnd
  \/ SummaryBegin
  \/ SummaryEnd
  \/ StartQuizBegin
  \/ StartQuizEnd
  \/ GenerateQuestion
  \/ CheckAnswer
  \/ CompleteQuizBegin
  \/ CompleteQuizEnd
  \/ StartExperimentBegin
  \/ StartExperimentEnd
  \/ SelectEquipmentBegin
  \/ SelectEquipmentEnd
  \/ NextStepBegin
  \/ NextStepEnd
  \/ PerformActionBegin
  \/ AnswerEnd
  \/ AskQuestionBegin
  \/ CompleteExperimentBegin
  \/ CompleteExperimentEnd
  \/ OptimizeBegin
  \/ OptimizeEnd
  \/ Result
  \/ DeleteResult
  \/ History

Spec == Init /\ [][Next]_vars

\* Requests handled one at a time: a request or a clock advance is accepted
\* only while no handler is suspended.
NextSerial == Next /\ (pending = EmptyBag \/ UNCHANGED steps)

SpecSerial == Init /\ [][NextSerial]_vars

----------------------------------------------------------------------------
(* Properties *)

StartOps == {"start-interview", "start-quiz", "start-experiment"}
LabStepOps == {"next-step", "select-equipment", "perform-action"}

\* every entry of Map m is still there, with the same session object, in m2
Preserved(m, m2) == \A id \in DOMAIN m : id \in DOMAIN m2 /\ m2[id] = m[id]

\* this step resumes handler h and sends its response
Resumes(h) == pending' = pending (-) SetToBag({h})

\* C1: every successful start call returns a session id that no earlier start
\* call of the store returned, the id resolves at once to the session object
\* that call created, and the call replaces no session that already exists,
\* also when two start calls read the same clock value.
C1_StartIdsUnique ==
  [][(response'.op \in StartOps /\ response'.status = 200)
       => /\ response'.sessionId \notin issued
          /\ Preserved(interviewSessions, interviewSessions')
          /\ Preserved(quizSessions, quizSessions')
          /\ Preserved(labSessions, labSessions')
          /\ Len(heap') = Len(heap) + 1
          /\ Len(heap') \in {MapGet(interviewSessions', response'.sessionId),
                             MapGet(quizSessions', response'.sessionId),
                             MapGet(labSessions', response'.sessionId)}]_vars

\* C2: when a lab step request (next-step, select-equipment, perform-action)
\* answers 500 after its model call, the session object is exactly what the
\* request found: currentStep, actions and equipmentSelected are unchanged.
C2_FailedLabStepLeavesSession ==
  [][\A h \in BagToSet(pending) :
       (h.op \in LabStepOps /\ Resumes(h) /\ response'.status = 500)
         => /\ heap'[h.session].currentStep = h.before.currentStep
            /\ heap'[h.session].actions = h.before.actions
            /\ heap'[h.session].equipmentSelected = h.before.equipmentSelected
            /\ heap'[h.session].equipmentAnalysis = h.before.equipmentAnalysis]_vars

\* C3: when a /api/feedback request answers 500 after its model call, the
\* session's answers and feedbacks are what the request found.
C3_FailedFeedbackLeavesAnswers ==
  [][\A h \in BagToSet(pending) :
       (h.op = "feedback" /\ Resumes(h) /\ response'.status = 500)
         => /\ heap'[h.session].answers = h.before.answers
            /\ heap'[h.session].feedbacks = h.before.feedbacks]_vars

\* C4: a /api/question request that fails changes no session; one that
\* succeeds appends exactly one question to its session and changes nothing
\* else; and no other step (the arrival of a question request included) ever
\* changes a questions list.
C4_QuestionAppendedOnceOnSuccess ==
  [][router = "interview"
       => /\ \A h \in BagToSet(pending) :
               (h.op = "question" /\ Resumes(h))
                 => IF response'.status = 200
                    THEN /\ Len(heap'[h.session].questions)
                              = Len(heap[h.session].questions) + 1
                         /\ SubSeq(heap'[h.session].questions, 1,
                                   Len(heap[h.session].questions))
                              = heap[h.session].questions
                         /\ \A ref \in DOMAIN heap \ {h.session} :
                              heap'[ref] = heap[ref]
                         /\ heap'[h.session].answers = heap[h.session].answers
                         /\ heap'[h.session].feedbacks = heap[h.session].feedbacks
                    ELSE heap' = heap
          /\ \A ref \in DOMAIN heap :
               heap'[ref].questions # heap[ref].questions
                 => response'.op = "question" /\ response'.status = 200]_vars

\* C4 witness: a question request has just failed on a session that holds the
\* question of an earlier, successful request.
C4_Witness ==
  /\ router = "interview"
  /\ response.op = "question"
  /\ response.status = 500
  /\ \E ref \in DOMAIN heap : Len(heap[ref].questions) = 1

\* C5: once a complete-quiz or complete-experiment call has succeeded for an
\* id, the id is not in the store, and stays out of it, so that every later
\* request naming it finds no session (404).
C5_CompletedStaysDeleted ==
  router \in {"quiz", "lab"}
    => \A id \in completed :
         id \notin DOMAIN quizSessions /\ id \notin DOMAIN labSessions

\* C6: once GET /api/interview-summary/:sessionId has succeeded for an id,
\* the id is not in interviewSessions, so that later summary, question and
\* feedback requests for it find no session (404).
C6_SummaryDeletesSession ==
  router = "interview"
    => \A id \in completed : id \notin DOMAIN interviewSessions

\* C7: the cursor of a session never exceeds its configured maximum: an
\* interview session holds at most numQuestions questions, and a quiz
\* session's currentQuestionIndex is at most numberOfQuestions.
C7_CursorWithinMaximum ==
  /\ router = "interview"
       => \A ref \in DOMAIN heap :
            Len(heap[ref].questions) <= heap[ref].numQuestions
  /\ router = "quiz"
       => \A ref \in DOMAIN heap :
            heap[ref].currentQuestionIndex <= heap[ref].numberOfQuestions

\* the lab step handlers suspended on a session object
StepsInFlight(ref) ==
  {h \in BagToSet(pending) : h.op \in LabStepOps /\ h.session = ref}

\* a session on which every lab step request so far has been answered, and
\* none with 500
AllStepsSucceeded(ref) == ~heap[ref].failed /\ StepsInFlight(ref) = {}

\* the "Completed step" entries of an actions log
CompletedSteps(actions) ==
  Cardinality({i \in 1..Len(actions) : actions[i][1] = "Completed step"})

\* C8 as stated: after any successful select-equipment, next-step and
\* perform-action requests on a lab session, actions has as many entries as
\* currentStep.
C8_ActionsMatchCurrentStep ==
  router = "lab"
    => \A ref \in DOMAIN heap :
         AllStepsSucceeded(ref) => Len(heap[ref].actions) = heap[ref].currentStep

\* C8 amended: after any successful select-equipment, next-step and
\* perform-action requests on a lab session, currentStep is the number of
\* "Completed step" entries in actions, one per next-step; actions also holds
\* the entries of the select-equipment and perform-action requests, so it is
\* at least as long as currentStep, and longer once a step has been taken.
C8_CompletedStepsMatchCurrentStep ==
  router = "lab"
    => \A ref \in DOMAIN heap :
         AllStepsSucceeded(ref)
           => /\ CompletedSteps(heap[ref].actions) = heap[ref].currentStep
              /\ Len(heap[ref].actions) >= heap[ref].currentStep
              /\ heap[ref].currentStep >= 1
                   => Len(heap[ref].actions) > heap[ref].currentStep

\* C8 witness: a session whose requests all succeeded has taken one step
\* after selecting equipment: two actions, currentStep 1.
C8_Witness ==
  /\ router = "lab"
  /\ \E ref \in DOMAIN heap :
       /\ AllStepsSucceeded(ref)
       /\ heap[ref].currentStep = 1
       /\ Len(heap[ref].actions) = 2

\* the session a generate-question response came from
Served == heap[quizSessions[response.sessionId]]

GenerateAnswered ==
  router = "quiz" /\ response.op = "generate-question" /\ response.status = 200

C10_PregenerateReturnsPool ==
  pregen.called
    => Len(pregen.result)
         >= Min(pregen.count, Len(CacheGet(questionCache, pregen.cacheKey, now)))

\* the handlers this step suspended at their await
Parked == {h \in BagToSet(pending') : CopiesIn(h, pending') > CopiesIn(h, pending)}

\* C11: within the TTL the cached question pool never gets shorter: a call of
\* pregenerateQuestions appends to the pool that is there when it writes.
C11_PoolNeverShrinks ==
  [][router = "quiz"
       => \A key \in DOMAIN questionCache :
            questionCache[key].t >= now'
              => /\ key \in DOMAIN questionCache'
                 /\ Len(questionCache'[key].v) >= Len(questionCache[key].v)]_vars

\* C12: start-quiz answers with an error and creates no session whenever
\* pre-generation returned no question; whenever it returns a sessionId, that
\* session holds at least one question and its currentQuestionIndex is 0.
C12_StartQuizNeedsQuestions ==
  [][response'.op = "start-quiz"
       => /\ pregen'.called
          /\ Len(pregen'.result) = 0 => response'.status = 500
          /\ response'.status # 200
               => quizSessions' = quizSessions /\ heap' = heap
          /\ response'.status = 200
               => /\ response'.sessionId \in DOMAIN quizSessions'
                  /\ LET session == heap'[quizSessions'[response'.sessionId]]
                     IN /\ Len(session.questions) >= 1
                        /\ session.currentQuestionIndex = 0]_vars

\* C12 witness: start-quiz asked for questions, pre-generation returned none,
\* and the request was answered 500.
C12_Witness ==
  /\ response.op = "start-quiz"
  /\ response.status = 500
  /\ pregen.called
  /\ pregen.count >= 1
  /\ pregen.result = <<>>

\* C13: generate-question makes no model call; it serves the question at
\* currentQuestionIndex of the session's list or reports completion, and all it
\* changes is that session's currentQuestionIndex, by 1 per question served.
C13_GenerateQuestionFrame ==
  [][response'.op = "generate-question"
       => /\ pending' = pending
          /\ ~pregen'.called
          /\ questionCache' = questionCache
          /\ quizSessions' = quizSessions
          /\ DOMAIN heap' = DOMAIN heap
          /\ LET ref == MapGet(quizSessions, response'.sessionId)
             IN /\ \A r \in DOMAIN heap : r # ref => heap'[r] = heap[r]
                /\ ref # 0
                     => /\ heap'[ref].questions = heap[ref].questions
                        /\ heap'[ref].numberOfQuestions = heap[ref].numberOfQuestions
                        /\ heap'[ref].difficulty = heap[ref].difficulty
                        /\ heap'[ref].category = heap[ref].category
                        /\ IF heap[ref].currentQuestionIndex < Len(heap[ref].questions)
                           THEN /\ response'.data = heap[ref].currentQuestionIndex
                                /\ heap'[ref].currentQuestionIndex
                                     = heap[ref].currentQuestionIndex + 1
                           ELSE /\ response'.data = QuizCompleted
                                /\ heap'[ref].currentQuestionIndex
                                     = heap[ref].currentQuestionIndex]_vars

\* C13 witness: a question was served while another session exists.
C13_Witness ==
  /\ response.op = "generate-question"
  /\ response.status = 200
  /\ response.data >= 0
  /\ Len(heap) >= 2

SessionOps ==
  {"question", "feedback", "interview-summary", "generate-question",
   "check-answer", "complete-quiz", "select-equipment", "next-step",
   "perform-action", "ask-question", "complete-experiment"}

StoredIds ==
  DOMAIN interviewSessions \cup DOMAIN quizSessions \cup DOMAIN labSessions

\* C19: a request to a session-keyed endpoint with an id that is not in the
\* store is answered 404, starts no model call, and changes no session and no
\* cache.
C19_UnknownSessionNotFound ==
  [][steps' # steps
       => /\ \A h \in Parked : h.op \in SessionOps => h.sessionId \in StoredIds
          /\ (response'.op \in SessionOps /\ response'.sessionId \notin StoredIds)
               => /\ response'.status = 404
                  /\ UNCHANGED <<heap, interviewSessions, quizSessions,
                                 labSessions, questionCache, optimizationCache,
                                 pending>>]_vars

\* C19 witness: sessions exist, and a request with an id that is not stored
\* was answered 404.
C19_Witness ==
  /\ response.op \in SessionOps
  /\ response.status = 404
  /\ response.sessionId \notin StoredIds
  /\ StoredIds # {}

\* a text that is not JSON, with or without code fences
PlainText(text) ==
  /\ text # <<>>
  /\ text # GatewayError
  /\ JSONparse(StripFences(text)) = ParseError

\* C20: next-step and ask-question succeed when the model returns plain text
\* that is not JSON.
C20_FreeTextTolerated ==
  (response.op \in {"next-step", "ask-question"} /\ PlainText(response.text))
    => response.status = 200

\* the member of a response body stored under key k, as a set
Member(body, k) == {m \in body.members : MemberKey(m) = k}

\* C15: while the cache entry an /optimize request stored for P has neither
\* expired nor been deleted, every /optimize request with the same P is
\* answered from it: fromCache true, the stored optimizations and summary, no
\* model call, the cache unchanged; and what the entry holds stays the same.
C15_CachedResultReturned ==
  [][router = "optimization"
       => /\ \A h \in Parked :
               ~(h.cacheKey \in DOMAIN optimizationCache
                   /\ optimizationCache[h.cacheKey].t >= now)
          /\ (/\ response'.op = "optimize"
              /\ steps' # steps
              /\ response'.sessionId \in DOMAIN optimizationCache
              /\ optimizationCache[response'.sessionId].t >= now)
               => LET entry == optimizationCache[response'.sessionId].v
                  IN /\ response'.status = 200
                     /\ response'.data.fromCache
                     /\ Member(response'.data.body, "optimizations")
                          = Member(entry, "optimizations")
                     /\ Member(response'.data.body, "summary")
                          = Member(entry, "summary")
                     /\ pending' = pending
                     /\ optimizationCache' = optimizationCache
          /\ \A key \in DOMAIN optimizationCache :
               (optimizationCache[key].t >= now /\ key \in DOMAIN optimizationCache')
                 => /\ Member(optimizationCache'[key].v, "optimizations")
                         = Member(optimizationCache[key].v, "optimizations")
                    /\ Member(optimizationCache'[key].v, "summary")
                         = Member(optimizationCache[key].v, "summary")]_vars

\* the limits the claim names, and the requests it says are rejected
ClaimedLimits ==
  {<<"Temperature", 0, 150>>, <<"Pressure", 0, 10>>, <<"Time", 0, 24>>,
   <<"Speed", 0, 5000>>, <<"Flow Rate", 0, 100>>}

Rejectable(processSteps) ==
  \E i \in 1..Len(processSteps) :
    \E j \in 1..Len(processSteps[i].parameters) :
      LET param == processSteps[i].parameters[j][1]
          value == processSteps[i].parameters[j][2]
      IN \/ value.type # "number"
         \/ \E l \in ClaimedLimits :
              l[1] = param /\ (value.n < l[2] \/ value.n > l[3])

RejectableKeys ==
  {JSONstringify(processSteps) :
     processSteps \in {p \in ProcessStepsInputs : Rejectable(p)}}

Unusable(text) ==
  /\ text # <<>>
  /\ text # GatewayError
  /\ LET value == extractJSONFromResponse(text)
     IN \/ value = ParseError
        \/ "optimizations" \notin {MemberKey(m) : m \in value.keys}
        \/ "summary" \notin {MemberKey(m) : m \in value.keys}

\* C17: every entry of the optimization cache has an optimizations and a
\* summary member, and metadata; on a model output that cannot be parsed or
\* lacks one of the two, /optimize answers 500 and writes nothing, and a
\* request is answered from the cache only if an entry was stored.
C17_StoredEntriesHaveBothKeys ==
  [][router = "optimization"
       => /\ \A key \in DOMAIN optimizationCache' :
               /\ Member(optimizationCache'[key].v, "optimizations") # {}
               /\ Member(optimizationCache'[key].v, "summary") # {}
               /\ optimizationCache'[key].v.metadata.processStepsHash = key
          /\ (response'.op = "optimize" /\ Unusable(response'.text))
               => /\ response'.status = 500
                  /\ optimizationCache' = optimizationCache
          /\ (response'.op = "optimize" /\ response'.status = 200
                /\ response'.data.fromCache)
               => response'.sessionId \in DOMAIN optimizationCache]_vars

\* C17 witness: the model returned an object without summary, /optimize
\* answered 500 and the key has no entry.
C17_Witness ==
  /\ response.op = "optimize"
  /\ response.status = 500
  /\ response.text = <<"{", "optimizations", "}">>
  /\ response.sessionId \notin DOMAIN optimizationCache

\* C18: a read made after an entry's TTL has elapsed misses although the entry
\* was never deleted: GET /result/:id answers 404, /optimize is not answered
\* from the cache and calls the model, pregenerateQuestions starts from an
\* empty pool.
C18_ExpiredEntryMisses ==
  [][/\ (/\ response'.op = "result"
         /\ response'.sessionId \in DOMAIN optimizationCache
         /\ optimizationCache[response'.sessionId].t < now)
          => response'.status = 404
     /\ (/\ response'.op = "optimize"
         /\ steps' # steps
         /\ response'.sessionId \in DOMAIN optimizationCache
         /\ optimizationCache[response'.sessionId].t < now)
          => response'.status # 200
     /\ \A h \in Parked :
          (/\ h.op = "start-quiz"
           /\ h.cacheKey \in DOMAIN questionCache
           /\ questionCache[h.cacheKey].t < now)
            => h.questions = <<>>
     /\ (/\ pregen'.called
         /\ steps' # steps
         /\ pregen'.cacheKey \in DOMAIN questionCache
         /\ questionCache[pregen'.cacheKey].t < now)
          => pregen'.result = <<>>]_vars

\* C18 witness: GET /result/:id found an expired entry and answered 404.
C18_Witness ==
  /\ response.op = "result"
  /\ response.status = 404
  /\ response.data = 1

\* what each decode strategy of the claim yields: the direct parse, the payload
\* inside code-fence markers, the embedded object, the embedded array
Strategies(text) ==
  <<JSONparse(text),
    IF FencedObject(text) = <<>> THEN ParseError ELSE JSONparse(FencedObject(text)),
    IF ObjectMatch(text) = <<>> THEN ParseError ELSE JSONparse(ObjectMatch(text)),
    IF MatchArray(text) = <<>> THEN ParseError ELSE JSONparse(MatchArray(text))>>

\* the value of the first strategy that parses, ParseError when none does
FirstParsed(text) ==
  LET parsing == {i \in 1..4 : Strategies(text)[i] # ParseError}
  IN IF parsing = {} THEN ParseError
     ELSE Strategies(text)[CHOOSE i \in parsing : \A j \in parsing : i <= j]

\* C21: the extractor returns the value of the first of its strategies that
\* parses the model output and fails only when none parses, and /optimize
\* answers 500 when it fails.
C21_FirstParsingStrategyWins ==
  (response.op = "optimize" /\ response.text \notin {<<>>, GatewayError})
    => /\ extractJSONFromResponse(response.text) = FirstParsed(response.text)
       /\ FirstParsed(response.text) = ParseError => response.status = 500

CompleteOps == {"complete-quiz", "complete-experiment"}

\* the session objects are what they were, the history fields aside
SameSessions ==
  /\ DOMAIN heap' = DOMAIN heap
  /\ \A r \in DOMAIN heap :
       IF router = "lab"
       THEN /\ heap'[r].experimentName = heap[r].experimentName
            /\ heap'[r].currentStep = heap[r].currentStep
            /\ heap'[r].actions = heap[r].actions
            /\ heap'[r].equipmentSelected = heap[r].equipmentSelected
            /\ heap'[r].experimentData = heap[r].experimentData
            /\ heap'[r].equipmentAnalysis = heap[r].equipmentAnalysis
       ELSE heap'[r] = heap[r]

\* the session ids this step removed from the quiz and lab stores
Deleted ==
  (DOMAIN quizSessions \ DOMAIN quizSessions')
    \cup (DOMAIN labSessions \ DOMAIN labSessions')

\* C22: a complete call that fails leaves the session in its store, unchanged,
\* as does the part of a complete call before its model call; a session
\* leaves its store only in the step in which a complete call for its id
\* answers success.
C22_FailedCompleteKeepsSession ==
  [][/\ (response'.op \in CompleteOps /\ response'.status = 500)
          => /\ quizSessions' = quizSessions
             /\ labSessions' = labSessions
             /\ SameSessions
     /\ (\E h \in Parked : h.op \in CompleteOps)
          => /\ quizSessions' = quizSessions
             /\ labSessions' = labSessions
             /\ SameSessions
     /\ \A id \in Deleted :
          /\ response'.op \in CompleteOps
          /\ response'.status = 200
          /\ response'.sessionId = id]_vars

\* C22 witness: a complete call failed and its session is still stored.
C22_Witness ==
  /\ response.op \in CompleteOps
  /\ response.status = 500
  /\ response.sessionId \in DOMAIN quizSessions \cup DOMAIN labSessions

\* C23: of the complete requests for one session id at most one answers
\* success; every complete request answered after that success gets 404.
C23_AtMostOneCompleteSucceeds ==
  [][(response'.op \in CompleteOps /\ response'.sessionId \in completed)
       => response'.status = 404]_vars

\* C24: next-step calls the model only for a session on which a
\* select-equipment request has succeeded; for any other session it answers
\* 400 and changes nothing.
C24_NextStepNeedsSelection ==
  [][router = "lab"
       => /\ \A h \in Parked : h.op = "next-step" => heap[h.session].selected
          /\ (/\ response'.op = "next-step"
              /\ steps' # steps
              /\ response'.sessionId \in DOMAIN labSessions
              /\ ~heap[labSessions[response'.sessionId]].selected)
               => /\ response'.status = 400
                  /\ heap' = heap
                  /\ pending' = pending]_vars

\* C25: the step number a successful next-step request returns is the value
\* that request itself gave to currentStep.
C25_StepNumberIsOwn ==
  [][\A h \in BagToSet(pending) :
       (/\ h.op = "next-step"
        /\ Resumes(h)
        /\ response'.op = "next-step"
        /\ response'.status = 200)
         => response'.data = h.before.currentStep + 1]_vars

\* C26: the cursor of a quiz session moves only when generate-question serves
\* a question on it, and then from the index served to the next one: every
\* index below the cursor was served once, to one request, and none skipped.
C26_QuestionIndexServedOnce ==
  [][router = "quiz"
       => /\ \A r \in DOMAIN heap :
               heap'[r].currentQuestionIndex # heap[r].currentQuestionIndex
                 => /\ response'.op = "generate-question"
                    /\ response'.status = 200
                    /\ MapGet(quizSessions, response'.sessionId) = r
                    /\ response'.data = heap[r].currentQuestionIndex
                    /\ heap'[r].currentQuestionIndex = response'.data + 1
          /\ (response'.op = "generate-question" /\ response'.status = 200
                /\ response'.data # QuizCompleted)
               => LET r == quizSessions[response'.sessionId]
                  IN /\ response'.data = heap[r].currentQuestionIndex
                     /\ heap'[r].currentQuestionIndex = response'.data + 1
          /\ \A r \in DOMAIN heap' :
               heap'[r].currentQuestionIndex
                 = Min(heap'[r].calls, Len(heap'[r].questions))]_vars

\* C26 witness: the second request on a session was served index 1 while a
\* complete-quiz request for it was suspended at its model call.
C26_Witness ==
  /\ GenerateAnswered
  /\ response.data = 1
  /\ Served.calls = 2
  /\ \E h \in BagToSet(pending) :
       h.op = "complete-quiz" /\ h.sessionId = response.sessionId

\* C27: an interview session never holds more feedbacks than answers, nor
\* more answers than questions.
C27_FeedbacksAnswersQuestions ==
  router = "interview"
    => \A r \in DOMAIN heap :
         /\ Len(heap[r].feedbacks) <= Len(heap[r].answers)
         /\ Len(heap[r].answers) <= Len(heap[r].questions)

====
